---- MODULE Spec2Model ----
(***************************************************************************)
(* led_group: a userspace LED (uleds) group leader whose brightness is     *)
(* mirrored onto up to MAX_LEDS_IN_GROUP follower LEDs.                    *)
(*                                                                         *)
(* The model follows src/led_group.c call by call.  The operating system   *)
(* is the environment: every open, read and write has every outcome the    *)
(* call can have (success, failure, EINTR), descriptors are handed out     *)
(* lowest-free-first, and every system call that completes is appended to  *)
(* `trace`, so that the properties are statements about the calls the      *)
(* program issues.                                                         *)
(***************************************************************************)
EXTENDS Integers, Sequences, FiniteSets, TLC

\* ------------------------------------------------------------------ bounds
\* Largest argc the shell hands to main (argc - 2 follower names).
MaxArgc == 7
\* Reads of the leader that return without error (loop iterations) per run.
MaxReads == 2
\* Abnormal system-call outcomes the environment injects per run that do not
\* end the run: an attempt interrupted by a signal (EINTR), a failed follower
\* write, a read of the leader that returns fewer bytes than asked for.
MaxFaults == 1
\* Calls of close_led_group_leds in the FollowerSet harness (SpecGroup).
MaxCloseCalls == 2

\* -------------------------------------------------------- program constants
MAX_LEDS_IN_GROUP == 4
max_brightness == 100
EXIT_SUCCESS == 0
EXIT_FAILURE == 1
\* char buf[20] of update_led
BufSize == 20
\* sizeof(int), the size of one brightness record read from /dev/uleds
SizeofInt == 4
\* Descriptors 0, 1, 2 are stdin, stdout, stderr: the first free one is 3.
FirstFreeFd == 3

\* Brightness values the leader delivers: negative, zero, above max_brightness.
Values == {-1, 0, 101}

\* Every descriptor number the run can see.
Fds == 0 .. (FirstFreeFd + MAX_LEDS_IN_GROUP + 1)

VARIABLES
    argc,        \* main's argc
    pc,          \* position of the single thread of control
    fd,          \* main's fd (the leader handle), -1 when none
    led_group,   \* struct led_group: [count, led_fds]
    arg,         \* loop variable of main's follower loop
    i,           \* loop variable of update_led_group
    brightness,  \* track_led_brightness's local
    exit_code,   \* main's exit_code (-1: not yet assigned)
    open_fds,    \* kernel: the descriptors open in this process
    pos,         \* kernel: file offset of each descriptor
    trace,       \* history: every completed system call, in order
    eintr,       \* history: the pc of every interrupted (EINTR) attempt so far
    ncalls       \* harness: calls of close_led_group_leds so far

vars == <<argc, pc, fd, led_group, arg, i, brightness, exit_code,
          open_fds, pos, trace, eintr, ncalls>>

\* ------------------------------------------------------------- the kernel
\* One completed system call.  val: the argv index of an open (1: /dev/uleds),
\* the value a read stored, the offset of an lseek, the file offset a write
\* landed at.  text: the bytes of a follower write.
Ev(call, f, val, text, ret, err) ==
    [call |-> call, fd |-> f, val |-> val, text |-> text, ret |-> ret, err |-> err]

\* open(2) returns the lowest descriptor not open in the process.
FreeFd(open) == CHOOSE n \in Fds : n \notin open /\ \A m \in Fds : m < n => m \in open

\* close(2): EBADF on a descriptor that is not open.
CloseEv(open, f) ==
    IF f \in open THEN Ev("close", f, 0, <<>>, 0, "none")
                  ELSE Ev("close", f, 0, <<>>, -1, "EBADF")

\* TEMP_FAILURE_RETRY: reissue the call while it fails with EINTR.
RetryNever(err) == FALSE
Retry(err) == err = "EINTR"

\* Completed reads of the leader that returned no error (what MaxReads bounds).
NumReads(tr) == Cardinality({k \in DOMAIN tr : tr[k].call = "read" /\ tr[k].ret >= 0})

\* The abnormal outcomes so far (what MaxFaults bounds).
NumFaults ==
    Len(eintr) + Cardinality({k \in DOMAIN trace :
                \/ trace[k].call = "pwrite" /\ trace[k].ret < 0
                \/ trace[k].call = "read" /\ trace[k].ret \in 0 .. (SizeofInt - 1)})

Faulty(set) == IF NumFaults < MaxFaults THEN set ELSE {}

\* Outcomes of one attempt of open(2), and of a read or write on descriptor f
\* (hard: the errors other than EINTR the call can end with).
OpenErrs == {"none", "ENOENT"} \cup Faulty({"EINTR"})
Errs(f, hard) ==
    IF f \notin open_fds THEN {"EBADF"} ELSE {"none"} \cup hard \cup Faulty({"EINTR"})

\* An interrupted attempt that is reissued: nothing of the program moves.
Reissue ==
    /\ eintr' = Append(eintr, pc)
    /\ UNCHANGED <<argc, pc, fd, led_group, arg, i, brightness, exit_code,
                   open_fds, pos, trace, ncalls>>

\* The interrupted attempts after an attempt that ended with err.
Interrupted(err) == IF err = "EINTR" THEN Append(eintr, pc) ELSE eintr

\* --------------------------------------------------------------- update_led
Digit(d) == <<"0", "1", "2", "3", "4", "5", "6", "7", "8", "9">>[d + 1]

RECURSIVE Digits(_)
Digits(n) == IF n < 10 THEN <<Digit(n)>> ELSE Digits(n \div 10) \o <<Digit(n % 10)>>

\* snprintf(buf, sizeof buf, "%d\n", brightness): at most BufSize - 1 bytes.
SnprintfClamped(v) ==
    LET c == IF v > max_brightness THEN max_brightness ELSE IF v < 0 THEN 0 ELSE v
    IN  Digits(c) \o <<"\n">>
Snprintf(v) ==
    LET s == (IF v < 0 THEN <<"-">> \o Digits(-v) ELSE Digits(v)) \o <<"\n">>
    IN  IF Len(s) > BufSize - 1 THEN SubSeq(s, 1, BufSize - 1) ELSE s

\* lseek(fd, 0, SEEK_SET)
SeekOffset(f) == 0

\* ------------------------------------------------- add_led_by_fd_to_led_group
AddLedByFdIncrementFirst(g, f) ==
    IF g.count >= MAX_LEDS_IN_GROUP
    THEN [added |-> FALSE, group |-> g]
    ELSE [added |-> TRUE,
          group |-> [count |-> g.count + 1,
                     led_fds |-> IF g.count + 2 \in DOMAIN g.led_fds
                                 THEN [g.led_fds EXCEPT ![g.count + 2] = f]
                                 ELSE g.led_fds]]
AddLedByFd(g, f) ==
    IF g.count >= MAX_LEDS_IN_GROUP
    THEN [added |-> FALSE, group |-> g]
    ELSE [added |-> TRUE,
          group |-> [count |-> g.count + 1,
                     led_fds |-> [g.led_fds EXCEPT ![g.count + 1] = f]]]

\* add_led_by_name_to_led_group, label done: the descriptor of a follower that
\* was not added is closed.
CloseRejectedNever(added, f) == FALSE
CloseRejected(added, f) == ~added /\ f >= 0

\* The whole of add_led_by_name_to_led_group for argv[k], given the outcome
\* err of the (non-interrupted) open: the new group, kernel state and trace.
AddLedByName(g, k, err, open, tr) ==
    IF err # "none"
    THEN [added |-> FALSE, group |-> g, open |-> open,
          trace |-> Append(tr, Ev("open", -1, k, <<>>, -1, err))]
    ELSE LET f  == FreeFd(open)
             r  == AddLedByFd(g, f)
             o1 == open \cup {f}
             t1 == Append(tr, Ev("open", f, k, <<>>, f, "none"))
         IN  IF CloseRejected(r.added, f)
             THEN [added |-> r.added, group |-> r.group, open |-> o1 \ {f},
                   trace |-> Append(t1, CloseEv(o1, f))]
             ELSE [added |-> r.added, group |-> r.group, open |-> o1, trace |-> t1]

\* ------------------------------------------------------ close_led_group_leds
RECURSIVE CloseFrom(_, _, _, _)
CloseFrom(g, k, open, tr) ==
    IF k > g.count
    THEN [open |-> open, trace |-> tr]
    ELSE CloseFrom(g, k + 1, open \ {g.led_fds[k]},
                   Append(tr, CloseEv(open, g.led_fds[k])))

CloseLedGroupLedsSkipFirst(g, open, tr) == CloseFrom(g, 2, open, tr)
CloseLedGroupLeds(g, open, tr) == CloseFrom(g, 1, open, tr)

\* --------------------------------------------------------------------- main
\* if (argc < 4)
UsageErrorOneFollower(n) == n < 3
UsageError(n) == n < 4

\* exit_code on each path of main
ExitUsage == EXIT_FAILURE
ExitCreateFailed == EXIT_FAILURE
ExitAddFailedIgnored == EXIT_SUCCESS
ExitAddFailed == EXIT_FAILURE
ExitTracked == EXIT_SUCCESS

Init ==
    /\ argc \in 1 .. MaxArgc
    /\ pc = "main"
    /\ fd = -1
    /\ led_group = [count |-> 0, led_fds |-> [k \in 1 .. MAX_LEDS_IN_GROUP |-> 0]]
    /\ arg = 0
    /\ i = 0
    /\ brightness = 0
    /\ exit_code = -1
    /\ open_fds = 0 .. (FirstFreeFd - 1)
    /\ pos = [f \in Fds |-> 0]
    /\ trace = <<>>
    /\ eintr = <<>>
    /\ ncalls = 0

Main ==
    /\ pc = "main"
    /\ IF UsageError(argc)
       THEN /\ exit_code' = ExitUsage
            /\ pc' = "done"
       ELSE /\ pc' = "create_open"
            /\ UNCHANGED exit_code
    /\ UNCHANGED <<argc, fd, led_group, arg, i, brightness, open_fds, pos, trace,
                   eintr, ncalls>>

\* create_led_group_leader: open("/dev/uleds", O_RDWR)
CreateOpen ==
    /\ pc = "create_open"
    /\ \E err \in OpenErrs :
         IF Retry(err)
         THEN Reissue
         ELSE /\ eintr' = Interrupted(err)
              /\ IF err = "none"
                 THEN LET f == FreeFd(open_fds)
                      IN  /\ fd' = f
                          /\ open_fds' = open_fds \cup {f}
                          /\ pos' = [pos EXCEPT ![f] = 0]
                          /\ trace' = Append(trace, Ev("open", f, 1, <<>>, f, "none"))
                          /\ pc' = "create_write"
                          /\ UNCHANGED exit_code
                 ELSE /\ trace' = Append(trace, Ev("open", -1, 1, <<>>, -1, err))
                      /\ exit_code' = ExitCreateFailed
                      /\ pc' = "done"
                      /\ UNCHANGED <<fd, open_fds, pos>>
              /\ UNCHANGED <<argc, led_group, arg, i, brightness, ncalls>>

\* create_led_group_leader after a failed registration: close(fd); fd = -1
FdAfterFailedCreateKept(f) == f
FdAfterFailedCreate(f) == -1

\* create_led_group_leader: write(fd, &uleds_dev, sizeof(uleds_dev)), then
\* main's test of the returned descriptor (fd == -1) and the start of the
\* follower loop.
CreateWrite ==
    /\ pc = "create_write"
    /\ \E err \in Errs(fd, {"EIO"}) :
         IF Retry(err)
         THEN Reissue
         ELSE LET ret == IF err = "none" THEN 1 ELSE -1
                  w   == Ev("write", fd, max_brightness, <<"uleds_user_dev">>, ret, err)
                  rfd == IF ret = -1 THEN FdAfterFailedCreate(fd) ELSE fd
              IN  /\ eintr' = Interrupted(err)
                  /\ IF ret = -1
                     THEN /\ trace' = trace \o << w, CloseEv(open_fds, fd) >>
                          /\ open_fds' = open_fds \ {fd}
                     ELSE /\ trace' = Append(trace, w)
                          /\ UNCHANGED open_fds
                  /\ fd' = rfd
                  /\ IF rfd = -1
                     THEN /\ exit_code' = ExitCreateFailed
                          /\ pc' = "done"
                          /\ UNCHANGED arg
                     ELSE /\ arg' = 2
                          /\ pc' = "add_loop"
                          /\ UNCHANGED exit_code
                  /\ UNCHANGED <<argc, led_group, i, brightness, pos, ncalls>>

\* for (int arg = first_arg_for_led_group; arg < argc; arg++)
AddLoop ==
    /\ pc = "add_loop"
    /\ pc' = IF arg < argc THEN "add_open" ELSE "track_read"
    /\ UNCHANGED <<argc, fd, led_group, arg, i, brightness, exit_code, open_fds, pos,
                   trace, eintr, ncalls>>

\* if (!add_led_by_name_to_led_group(...)) { ...; goto done; }
AbortNever(added) == FALSE
AbortOnAddFailure(added) == ~added

\* add_led_by_name_to_led_group(&led_group, argv[arg]) and main's test of it
AddOpen ==
    /\ pc = "add_open"
    /\ \E err \in OpenErrs :
         IF Retry(err)
         THEN Reissue
         ELSE LET r == AddLedByName(led_group, arg, err, open_fds, trace)
              IN  /\ eintr' = Interrupted(err)
                  /\ led_group' = r.group
                  /\ open_fds' = r.open
                  /\ trace' = r.trace
                  /\ pos' = [f \in Fds |-> IF f \in r.open \ open_fds THEN 0 ELSE pos[f]]
                  /\ IF AbortOnAddFailure(r.added)
                     THEN /\ exit_code' = ExitAddFailed
                          /\ pc' = "done"
                          /\ UNCHANGED arg
                     ELSE /\ arg' = arg + 1
                          /\ pc' = "add_loop"
                          /\ UNCHANGED exit_code
                  /\ UNCHANGED <<argc, fd, i, brightness, ncalls>>

\* ------------------------------------------------------ track_led_brightness
\* Byte counts a read of sizeof(brightness) bytes can return without error:
\* end of stream and a short read (abnormal), one whole record.
ReadLens == Faulty({0, 2}) \cup {SizeofInt}

\* if (ret == -1) ... goto done
ReadFailed(ret) == ret = -1

\* update_led_group's loop test, for (...; i < group->count; ...): where
\* control goes with loop variable k.
LoopPc(k) == IF k < led_group.count THEN "update" ELSE "track_read"

\* read(fd, &brightness, sizeof(brightness)), the test of its result, and on
\* the way out of the loop main's exit_code = EXIT_SUCCESS.  A read that
\* returns fewer than sizeof(brightness) bytes leaves the local (partly)
\* uninitialised: its value is then any value.
TrackRead ==
    /\ pc = "track_read"
    /\ \E err \in Errs(fd, {"EIO"}), n \in ReadLens, v \in Values :
         /\ err # "none" => (n = SizeofInt /\ v = 0)
         /\ err = "none" => NumReads(trace) < MaxReads
         /\ IF Retry(err)
            THEN Reissue
            ELSE LET ret == IF err = "none" THEN n ELSE -1
                 IN  /\ eintr' = Interrupted(err)
                     /\ trace' = Append(trace,
                           Ev("read", fd, IF ret = SizeofInt THEN v ELSE 0, <<>>, ret, err))
                     /\ IF ReadFailed(ret)
                        THEN /\ exit_code' = ExitTracked
                             /\ pc' = "done"
                             /\ UNCHANGED <<brightness, i>>
                        ELSE /\ brightness' = v
                             /\ i' = 0
                             /\ pc' = LoopPc(0)
                             /\ UNCHANGED exit_code
                     /\ UNCHANGED <<argc, fd, led_group, arg, open_fds, pos, ncalls>>

\* update_led_group's i++ after update_led returns (update_led is void: a
\* failed write is reported and the loop goes on).
AfterWriteStopOnError(ret, k) == IF ret < 0 THEN led_group.count ELSE k + 1
AfterWrite(ret, k) == k + 1

\* lseek(2) on descriptor f to offset off.
SeekEv(f, off) ==
    IF f \in open_fds THEN Ev("lseek", f, off, <<>>, off, "none")
                      ELSE Ev("lseek", f, off, <<>>, -1, "EBADF")

\* update_led(group->led_fds[i], brightness): snprintf, lseek, write, and the
\* loop's i++.  The write lands at the offset the lseek left ("pwrite" in
\* the trace names a follower write, with that offset as val).
UpdateLed ==
    /\ pc = "update"
    /\ LET f   == led_group.led_fds[i + 1]
           s   == Snprintf(brightness)
           off == SeekOffset(f)
       IN  \E err \in Errs(f, Faulty({"EIO"})) :
             IF Retry(err)
             THEN Reissue
             ELSE LET ret == IF err = "none" THEN Len(s) ELSE -1
                  IN  /\ eintr' = Interrupted(err)
                      /\ trace' = trace \o << SeekEv(f, off), Ev("pwrite", f, off, s, ret, err) >>
                      /\ pos' = IF f \in open_fds
                                THEN [pos EXCEPT ![f] = IF ret >= 0 THEN off + ret ELSE off]
                                ELSE pos
                      /\ i' = AfterWrite(ret, i)
                      /\ pc' = LoopPc(AfterWrite(ret, i))
                      /\ UNCHANGED <<argc, fd, led_group, arg, brightness, exit_code,
                                     open_fds, ncalls>>

\* ----------------------------------------------------------- main, label done
\* if (fd >= 0) close(fd);
LeaderToCloseAlways(f) == TRUE
LeaderToClose(f) == f >= 0

Done ==
    /\ pc = "done"
    /\ IF LeaderToClose(fd)
       THEN /\ trace' = Append(trace, CloseEv(open_fds, fd))
            /\ open_fds' = open_fds \ {fd}
       ELSE UNCHANGED <<trace, open_fds>>
    /\ pc' = "close_leds"
    /\ UNCHANGED <<argc, fd, led_group, arg, i, brightness, exit_code, pos, eintr, ncalls>>

\* close_led_group_leds(&led_group); return exit_code;
CloseLeds ==
    /\ pc = "close_leds"
    /\ LET r == CloseLedGroupLeds(led_group, open_fds, trace)
       IN  /\ open_fds' = r.open
           /\ trace' = r.trace
    /\ pc' = "exited"
    /\ UNCHANGED <<argc, fd, led_group, arg, i, brightness, exit_code, pos, eintr, ncalls>>

\* A termination signal (SIGINT, SIGTERM) while the process is blocked in the
\* read of the leader.  The program installs no handler and blocks no signal,
\* so the default disposition ends the process where it stands; the kernel,
\* not the program, releases the descriptors.
Kill ==
    /\ pc = "track_read"
    /\ pc' = "killed"
    /\ open_fds' = {}
    /\ UNCHANGED <<argc, fd, led_group, arg, i, brightness, exit_code, pos, trace,
                   eintr, ncalls>>

Next ==
    \/ Main
    \/ CreateOpen
    \/ CreateWrite
    \/ AddLoop
    \/ AddOpen
    \/ TrackRead
    \/ UpdateLed
    \/ Done
    \/ CloseLeds
    \/ Kill

Spec == Init /\ [][Next]_vars

\* ------------------------------------------------- the follower set on its own
\* struct led_group driven through its two operations in any order, as a
\* caller other than main may: add_led_by_name_to_led_group for the next name
\* and close_led_group_leds.
InitGroup ==
    /\ argc = MaxArgc
    /\ pc = "group"
    /\ fd = -1
    /\ led_group = [count |-> 0, led_fds |-> [k \in 1 .. MAX_LEDS_IN_GROUP |-> 0]]
    /\ arg = 2
    /\ i = 0
    /\ brightness = 0
    /\ exit_code = -1
    /\ open_fds = 0 .. (FirstFreeFd - 1)
    /\ pos = [f \in Fds |-> 0]
    /\ trace = <<>>
    /\ eintr = <<>>
    /\ ncalls = 0

GroupAdd ==
    /\ pc = "group"
    /\ arg < argc
    /\ \E err \in OpenErrs :
         IF Retry(err)
         THEN Reissue
         ELSE LET r == AddLedByName(led_group, arg, err, open_fds, trace)
              IN  /\ eintr' = Interrupted(err)
                  /\ led_group' = r.group
                  /\ open_fds' = r.open
                  /\ trace' = r.trace
                  /\ pos' = [f \in Fds |-> IF f \in r.open \ open_fds THEN 0 ELSE pos[f]]
                  /\ arg' = arg + 1
                  /\ UNCHANGED <<argc, pc, fd, i, brightness, exit_code, ncalls>>

GroupCloseAll ==
    /\ pc = "group"
    /\ ncalls < MaxCloseCalls
    /\ LET r == CloseLedGroupLeds(led_group, open_fds, trace)
       IN  /\ open_fds' = r.open
           /\ trace' = r.trace
    /\ ncalls' = ncalls + 1
    /\ UNCHANGED <<argc, pc, fd, led_group, arg, i, brightness, exit_code, pos, eintr>>

NextGroup ==
    \/ GroupAdd
    \/ GroupCloseAll

SpecGroup == InitGroup /\ [][NextGroup]_vars

\* ================================================================ properties
\* Positions of the trace holding a given kind of call.
Calls(c) == {k \in DOMAIN trace : trace[k].call = c}
\* Successful opens: each one creates a handle.
Opened == {k \in Calls("open") : trace[k].ret >= 0}
\* The program's own close calls of the handle opened at position k.
ClosesOf(k) == {j \in Calls("close") : j > k /\ trace[j].fd = trace[k].fd}
\* main has returned / the mirror loop has stopped.
Returned == pc = "exited"

\* C1: when main returns, every handle a successful open returned (the leader
\* and every follower, a rejected one included) has been closed by exactly
\* one close call, no close call hit a descriptor that was not open, and the
\* process holds no descriptor beyond stdin, stdout and stderr.
C1_ClosedExactlyOnce ==
    Returned =>
        /\ \A k \in Opened : Cardinality(ClosesOf(k)) = 1
        /\ \A j \in Calls("close") : trace[j].ret = 0
        /\ open_fds = 0 .. (FirstFreeFd - 1)

\* A run that returned after opening the leader, four followers and a fifth
\* follower that was rejected.
C1_Witness ==
    /\ Returned
    /\ led_group.count = MAX_LEDS_IN_GROUP
    /\ Cardinality(Opened) = MAX_LEDS_IN_GROUP + 2

\* The decimal reading of a text, digit by digit (independent of Snprintf).
DigitValue(c) ==
    CASE c = "0" -> 0 [] c = "1" -> 1 [] c = "2" -> 2 [] c = "3" -> 3 [] c = "4" -> 4
      [] c = "5" -> 5 [] c = "6" -> 6 [] c = "7" -> 7 [] c = "8" -> 8 [] c = "9" -> 9
      [] OTHER -> -1

RECURSIVE NaturalOf(_)
NaturalOf(t) ==
    IF Len(t) = 1 THEN DigitValue(t[1])
    ELSE 10 * NaturalOf(SubSeq(t, 1, Len(t) - 1)) + DigitValue(t[Len(t)])

\* t is the canonical decimal numeral of the natural number n.
IsNumeral(t, n) ==
    /\ Len(t) >= 1
    /\ \A k \in DOMAIN t : DigitValue(t[k]) >= 0
    /\ Len(t) > 1 => t[1] # "0"
    /\ NaturalOf(t) = n

\* t is the decimal text of the integer v followed by a newline.
IsDecimalLine(t, v) ==
    /\ Len(t) >= 2
    /\ t[Len(t)] = "\n"
    /\ LET body == SubSeq(t, 1, Len(t) - 1)
       IN  IF v < 0
           THEN Len(body) >= 2 /\ body[1] = "-" /\ IsNumeral(Tail(body), -v)
           ELSE IsNumeral(body, v)

\* The calls that follow the read at position k up to the next read of the
\* leader (or, when there is none yet, up to the end of the trace).
NextRead(k) ==
    IF \E m \in Calls("read") : m > k
    THEN CHOOSE m \in Calls("read") : m > k /\ \A n \in Calls("read") : n > k => m <= n
    ELSE Len(trace) + 1
FanOut(k) == SubSeq(trace, k + 1, NextRead(k) - 1)

\* The fan-out of the read at position k is over: the next read was issued, or
\* the loop is back at the read.
FanOutOver(k) == NextRead(k) <= Len(trace) \/ pc \in {"track_read", "killed"}

\* C2: after every read of the leader that delivered a whole value v, the calls
\* issued up to the next read are exactly, for each follower of the set in
\* order, an lseek of its handle to offset 0 and then a write, landing at
\* offset 0, of the decimal text of v followed by a newline (v itself, neither
\* scaled nor clamped); once the next read is issued no follower was left out.
C2_FanOutOfEveryValue ==
    \A k \in Calls("read") :
        trace[k].ret = SizeofInt =>
            LET seg == FanOut(k)
                v   == trace[k].val
            IN  /\ Len(seg) <= 2 * led_group.count
                /\ FanOutOver(k) => Len(seg) = 2 * led_group.count
                /\ \A p \in DOMAIN seg :
                     LET f == led_group.led_fds[(p + 1) \div 2]
                     IN  IF p % 2 = 1
                         THEN seg[p].call = "lseek" /\ seg[p].fd = f /\ seg[p].val = 0
                         ELSE /\ seg[p].call = "pwrite"
                              /\ seg[p].fd = f
                              /\ seg[p].val = 0
                              /\ IsDecimalLine(seg[p].text, v)

\* Two whole values, the second above max_brightness, were each fanned out to
\* four followers and the loop is back at the read.
C2_Witness ==
    /\ pc = "track_read"
    /\ led_group.count = MAX_LEDS_IN_GROUP
    /\ \E k, m \in Calls("read") :
         /\ k < m
         /\ trace[k].ret = SizeofInt /\ trace[k].val = -1
         /\ trace[m].ret = SizeofInt /\ trace[m].val = max_brightness + 1
         /\ \A p \in DOMAIN FanOut(m) : FanOut(m)[p].ret >= 0

\* The mirror loop has stopped: control is past track_led_brightness.
Stopped == pc \in {"done", "close_leds", "exited"} /\ Calls("read") # {}

\* C3: a read of the leader that returns end of stream (0 bytes) or an error
\* is the last call of the mirror loop: the loop is stopped, and no follower
\* lseek or write and no further read is issued after it.
C3_EndOfStreamOrErrorStops ==
    \A k \in Calls("read") :
        trace[k].ret \in {0, -1} =>
            /\ Stopped
            /\ \A j \in DOMAIN trace : j > k => trace[j].call = "close"

FailedWrites == {k \in Calls("pwrite") : trace[k].ret < 0}
\* The read whose fan-out the call at position k belongs to.
ReadBefore(k) == CHOOSE m \in Calls("read") : m < k /\ \A n \in Calls("read") : n < k => n <= m

\* C5: a failed follower write does not cut the fan-out short and does not
\* stop the loop: the value of that read still goes to every follower of the
\* set (one write each, same text, in order), every later value read is again
\* written to every follower, the one whose write failed included, and the
\* loop is stopped only after a read of the leader returned an error.
C5_WriteFailureIsolated ==
    \A w \in FailedWrites :
        /\ \A k \in Calls("read") :
             (k >= ReadBefore(w) /\ trace[k].ret >= 0 /\ FanOutOver(k)) =>
                 LET writes == SelectSeq(FanOut(k), LAMBDA e : e.call = "pwrite")
                 IN  /\ Len(writes) = led_group.count
                     /\ \A p \in DOMAIN writes :
                          /\ writes[p].fd = led_group.led_fds[p]
                          /\ writes[p].text = writes[1].text
        /\ Stopped => \E k \in Calls("read") : k > w /\ trace[k].ret = -1

\* The write to the first of four followers failed, and a later value was
\* read and fanned out before the loop came back to the read.
C5_Witness ==
    /\ pc = "track_read"
    /\ led_group.count = MAX_LEDS_IN_GROUP
    /\ \E w \in FailedWrites :
         /\ trace[w].fd = led_group.led_fds[1]
         /\ \E k \in Calls("read") : k > w /\ trace[k].ret = SizeofInt

\* C6: when a termination signal ends the process while it is blocked in the
\* read of the leader, the program's teardown has run: the leader handle and
\* every follower handle were closed by a close call of the program.
C6_TeardownOnSignal ==
    pc = "killed" => \A k \in Opened : Cardinality(ClosesOf(k)) = 1

\* C7: close_led_group_leds is idempotent: on an empty set it closes nothing,
\* and no call of it closes a handle that an earlier call already closed
\* (every close it issues is of an open descriptor, so none fails).
C7_CloseAllIdempotent ==
    /\ (led_group.count = 0 /\ ncalls > 0) => Calls("close") = {}
    /\ \A j \in Calls("close") : trace[j].ret = 0

\* The run ended as a usage error: failure exit without any system call.
UsageExit == exit_code = EXIT_FAILURE /\ trace = <<>>

\* C8 as stated: the usage error is raised exactly when fewer than two
\* arguments follow the program name, so a leader name with one follower name
\* (argc = 3) goes on to create the leader.
C8_OneFollowerAccepted ==
    pc # "main" => (UsageExit <=> argc - 1 < 2)

\* C8 as the code has it: the usage error is raised exactly when fewer than
\* three arguments follow the program name; a leader name with exactly one
\* follower name is a usage error, a leader name with two follower names is
\* accepted and goes on to create the leader.
C8_TwoFollowersNeeded ==
    pc # "main" => (UsageExit <=> argc - 1 < 3)

\* A leader name with one follower name ended as a usage error.
C8_Witness ==
    /\ argc = 3
    /\ Returned
    /\ UsageExit

\* The leader was registered / the mirror loop was entered and terminated.
LeaderCreated ==
    \E k \in Calls("write") : trace[k].text = <<"uleds_user_dev">> /\ trace[k].ret >= 0
LoopTerminated == \E k \in Calls("read") : trace[k].ret = -1

\* C9: main returns 0 exactly when the leader was created, every one of the
\* argc - 2 requested followers was added, and the mirror loop was entered
\* and terminated; in every other case it returns a non-zero code.
C9_ExitCode ==
    Returned =>
        /\ exit_code \in {EXIT_SUCCESS, EXIT_FAILURE}
        /\ EXIT_FAILURE # 0
        /\ exit_code = 0 <=>
             /\ LeaderCreated
             /\ led_group.count = argc - 2
             /\ LoopTerminated

\* A run with four followers that mirrored a value and returned 0.
C9_Witness ==
    /\ Returned
    /\ exit_code = 0
    /\ led_group.count = MAX_LEDS_IN_GROUP
    /\ Calls("pwrite") # {}

\* C10: an attempt of open, read or write that is interrupted (EINTR) is
\* reissued: the program stays at the same call, nothing else of its state
\* changes (the loop does not stop, no follower is written, nothing is
\* closed), and no call ever completes with EINTR as its outcome.
C10_InterruptedCallReissued ==
    [][ /\ Len(eintr') > Len(eintr)
          => /\ pc' = pc
             /\ UNCHANGED <<fd, led_group, arg, i, brightness, exit_code, open_fds, pos, trace>>
        /\ \A k \in DOMAIN trace' : trace'[k].err # "EINTR" ]_vars

\* The read of the leader was interrupted, and the run went on to mirror a
\* value and return 0.
C10_Witness ==
    /\ Returned
    /\ eintr = <<"track_read">>
    /\ exit_code = 0
    /\ Calls("pwrite") # {}

\* The follower opens of the trace, in the order they were issued.
FollowerOpens == SelectSeq(trace, LAMBDA e : e.call = "open" /\ e.val >= 2)
\* Positions of an add that failed: the open failed, or the handle it
\* returned was closed again at once (the follower was rejected).
FailedAdds ==
    {k \in Calls("open") :
        /\ trace[k].val >= 2
        /\ \/ trace[k].ret < 0
           \/ k < Len(trace) /\ trace[k + 1].call = "close" /\ trace[k + 1].fd = trace[k].fd}
\* Control is inside the mirror loop.
InLoop == pc \in {"track_read", "update"}

\* C11: follower paths are opened in argument order (argv[2], argv[3], ...);
\* after the first add that fails nothing but close calls is issued (no later
\* follower is opened, the leader is never read, no follower is written) and
\* control is in teardown; and whenever the mirror loop is entered or was
\* entered, the set holds argc - 2 handles, entry j being the handle the open
\* of argv[j + 1] returned, all open while the loop runs.
C11_AbortAtFirstFailedAdd ==
    /\ \A p \in DOMAIN FollowerOpens : FollowerOpens[p].val = p + 1
    /\ \A k \in FailedAdds :
         /\ \A j \in DOMAIN trace : j > k => trace[j].call = "close"
         /\ pc \in {"done", "close_leds", "exited"}
         /\ exit_code = EXIT_FAILURE
    /\ (InLoop \/ Calls("read") # {}) =>
         /\ led_group.count = argc - 2
         /\ \A j \in 1 .. led_group.count :
              /\ FollowerOpens[j].fd = led_group.led_fds[j]
              /\ FollowerOpens[j].ret >= 0
              /\ InLoop => led_group.led_fds[j] \in open_fds

\* The third of four requested followers could not be opened: the run
\* returned with two members and without having read the leader.
C11_Witness ==
    /\ Returned
    /\ argc = MAX_LEDS_IN_GROUP + 2
    /\ led_group.count = 2
    /\ Len(FollowerOpens) = 3
    /\ FollowerOpens[3].ret < 0

\* The handle held in entry j of the set: the successful open that returned it.
OpenOfEntry(j) == {k \in Opened : trace[k].fd = led_group.led_fds[j] /\ trace[k].val = j + 1}

\* C12: count is always within 0 .. MAX_LEDS_IN_GROUP, and until teardown has
\* closed the followers (or the process is gone) each of the first count
\* entries holds a handle that a successful open of that follower's path
\* returned, that is still open, that no close call was issued on, and that
\* differs from every other entry and from the leader handle.
C12_MembersAreOpenHandles ==
    /\ led_group.count \in 0 .. MAX_LEDS_IN_GROUP
    /\ pc \notin {"exited", "killed"} =>
         \A j \in 1 .. led_group.count :
             /\ OpenOfEntry(j) # {}
             /\ led_group.led_fds[j] \in open_fds
             /\ \A c \in Calls("close") : trace[c].fd # led_group.led_fds[j]
             /\ led_group.led_fds[j] # fd
             /\ \A m \in 1 .. led_group.count : m # j => led_group.led_fds[m] # led_group.led_fds[j]

\* Teardown has closed the leader and is about to close a full set, after a
\* fifth follower was rejected.
C12_Witness ==
    /\ pc = "close_leds"
    /\ led_group.count = MAX_LEDS_IN_GROUP
    /\ fd >= 0 /\ fd \notin open_fds
    /\ Len(FollowerOpens) = MAX_LEDS_IN_GROUP + 1

\* C13: one add (an attempt that is not merely reissued).  When the open of
\* the brightness path fails, the add fails (main aborts) with count, the
\* member handles and the open descriptors as they were and no close issued.
\* When the open succeeds with the set below capacity, the returned handle is
\* stored in entry count + 1, count grows by one, the earlier entries are as
\* they were, and nothing is closed.
C13_AddFrame ==
    [][ (pc = "add_open" /\ Len(eintr') = Len(eintr))
          => LET o == trace'[Len(trace) + 1]
             IN  /\ Len(trace') > Len(trace)
                 /\ o.call = "open" /\ o.val = arg
                 /\ o.ret < 0 =>
                      /\ led_group' = led_group
                      /\ open_fds' = open_fds
                      /\ trace' = Append(trace, o)
                      /\ pc' = "done" /\ exit_code' # EXIT_SUCCESS
                 /\ (o.ret >= 0 /\ led_group.count < MAX_LEDS_IN_GROUP) =>
                      /\ led_group'.count = led_group.count + 1
                      /\ led_group'.led_fds[led_group.count + 1] = o.fd
                      /\ \A j \in 1 .. led_group.count :
                           led_group'.led_fds[j] = led_group.led_fds[j]
                      /\ open_fds' = open_fds \cup {o.fd}
                      /\ o.fd \notin open_fds
                      /\ trace' = Append(trace, o)
                      /\ pc' = "add_loop" ]_vars

\* Two followers were added and the open of the third failed.
C13_Witness ==
    /\ pc = "done"
    /\ led_group.count = 2
    /\ Len(FollowerOpens) = 3
    /\ trace[Len(trace)].call = "open"
    /\ trace[Len(trace)].ret < 0

\* The open of /dev/uleds failed / the descriptor write (registration) failed.
LeaderOpenFailed == Len(trace) >= 1 /\ trace[1].call = "open" /\ trace[1].ret < 0
RegistrationFailed ==
    /\ Len(trace) >= 2
    /\ trace[2].call = "write" /\ trace[2].text = <<"uleds_user_dev">> /\ trace[2].ret < 0

\* C14: a failed leader creation ends the run's system calls.  When the open
\* of /dev/uleds fails, that failed open is the only call ever issued (no
\* handle exists, none is closed).  When the descriptor write fails, the
\* calls are exactly the open, the failed write and one successful close of
\* the handle just opened.  In both cases main holds fd = -1 and is in
\* teardown with a failure code, so no follower path is opened, the leader
\* is never read, and teardown issues no second close of the leader handle.
C14_LeaderFailureIsTerminal ==
    /\ LeaderOpenFailed =>
         /\ Len(trace) = 1
         /\ open_fds = 0 .. (FirstFreeFd - 1)
    /\ RegistrationFailed =>
         /\ Len(trace) = 3
         /\ trace[1].call = "open" /\ trace[1].val = 1 /\ trace[1].ret >= 0
         /\ trace[3] = Ev("close", trace[1].fd, 0, <<>>, 0, "none")
         /\ open_fds = 0 .. (FirstFreeFd - 1)
    /\ (LeaderOpenFailed \/ RegistrationFailed) =>
         /\ fd = -1
         /\ led_group.count = 0
         /\ pc \in {"done", "close_leds", "exited"}
         /\ exit_code = EXIT_FAILURE

\* main returned after a failed registration.
C14_Witness == Returned /\ RegistrationFailed

\* C15: with too few arguments (fewer than three after the program name)
\* main goes from its argument test straight to teardown and out: no system
\* call at all is issued (no open of /dev/uleds or of a follower path, no
\* close), the descriptors are as at the start, and the exit code is
\* EXIT_FAILURE.
C15_UsageErrorDoesNothing ==
    (argc - 1 < 3 /\ pc # "main") =>
        /\ trace = <<>>
        /\ open_fds = 0 .. (FirstFreeFd - 1)
        /\ fd = -1 /\ led_group.count = 0
        /\ pc \in {"done", "close_leds", "exited"}
        /\ exit_code = EXIT_FAILURE

\* main returned from a run with the leader name as its only argument.
C15_Witness ==
    /\ argc = 2
    /\ Returned
    /\ Calls("open") = {} /\ Calls("close") = {}

\* Spec with the progress the single thread of control makes: every step but
\* the read of the leader is taken once it is enabled (open, write, lseek and
\* close return; the program runs on).  The read of the leader may block for
\* ever, and the termination signal may never come: neither is assumed.
FairSpec ==
    /\ Spec
    /\ WF_vars(Main)
    /\ WF_vars(CreateOpen)
    /\ WF_vars(CreateWrite)
    /\ WF_vars(AddLoop)
    /\ WF_vars(AddOpen)
    /\ WF_vars(UpdateLed)
    /\ WF_vars(Done)
    /\ WF_vars(CloseLeds)

\* main has returned 0 with the leader handle and every member closed.
ReturnedCleanly ==
    /\ Returned
    /\ exit_code = 0
    /\ \A k \in Opened : Cardinality(ClosesOf(k)) = 1
    /\ fd \notin open_fds
    /\ \A j \in 1 .. led_group.count : led_group.led_fds[j] \notin open_fds

\* C16: once a read of the leader has returned an error, the program goes on
\* to return from main with exit code 0, the leader handle and every
\* follower handle closed; and a fan-out that has started always finishes,
\* bringing the loop back to the read of the leader.
C16_TerminatesAfterReadError ==
    /\ LoopTerminated ~> ReturnedCleanly
    /\ (pc = "update") ~> (pc = "track_read")

\* A run whose second read failed, after a fan-out to three followers, has
\* returned.
C16_Witness ==
    /\ Returned
    /\ led_group.count = 3
    /\ Cardinality(Calls("read")) = 2
    /\ Cardinality(Calls("pwrite")) = 3
    /\ LoopTerminated

\* Reads that delivered a whole value.
WholeReads == {k \in Calls("read") : trace[k].ret = SizeofInt}

\* C17: whatever value v a whole read delivers (negative, 0, above
\* max_brightness), every follower write of its fan-out carries the decimal
\* text of v itself, the loop goes from that fan-out back to the read of the
\* leader, and the loop is left only after a later read returned an error.
C17_AnyValueKeepsLoopRunning ==
    \A k \in WholeReads :
        LET seg  == FanOut(k)
            last == NextRead(k) > Len(trace)
        IN  /\ \A p \in DOMAIN seg :
                 seg[p].call = "pwrite" => IsDecimalLine(seg[p].text, trace[k].val)
            /\ last => InLoop \/ pc = "killed"
            /\ Stopped => \E m \in Calls("read") : m > k /\ trace[m].ret = -1
            /\ (last /\ pc = "track_read") =>
                 Cardinality({p \in DOMAIN seg : seg[p].call = "pwrite"}) = led_group.count

\* A value above max_brightness and then 0 were each read and fanned out to
\* two followers, and the loop is back at the read.
C17_Witness ==
    /\ pc = "track_read"
    /\ led_group.count = 2
    /\ \E k, m \in WholeReads :
         /\ k < m
         /\ trace[k].val > max_brightness
         /\ trace[m].val = 0
         /\ Len(FanOut(m)) = 4

\* The values delivered by whole reads, and the writes issued on descriptor f,
\* each in order.
DeliveredValues == SelectSeq(trace, LAMBDA e : e.call = "read" /\ e.ret = SizeofInt)
WritesTo(f) == SelectSeq(trace, LAMBDA e : e.call = "pwrite" /\ e.fd = f)
\* No fan-out is under way.
BetweenFanOuts == pc \in {"track_read", "done", "close_leds", "exited"}

\* C18: between fan-outs, the texts written to each follower over the run
\* (failed attempts included) are, one for one and in order, the decimal
\* texts of the values that whole reads of the leader delivered: a read that
\* delivers no value (end of stream, short read) causes no write.
C18_WritesAreDeliveredValues ==
    BetweenFanOuts =>
        \A j \in 1 .. led_group.count :
            LET w == WritesTo(led_group.led_fds[j])
            IN  /\ Len(w) = Len(DeliveredValues)
                /\ \A p \in DOMAIN w : IsDecimalLine(w[p].text, DeliveredValues[p].val)

\* The same statement for the runs in which every read that returned without
\* error delivered a whole value.
C18_HoldsWithoutIncompleteReads ==
    (\A k \in Calls("read") : trace[k].ret \in {-1, SizeofInt}) => C18_WritesAreDeliveredValues

\* Calls that use a descriptor (everything but open and close).
Uses == {k \in DOMAIN trace : trace[k].call \in {"read", "write", "lseek", "pwrite"}}

\* C19: no descriptor is used after the program closed it (no read, write or
\* lseek follows a close of the same descriptor, and none fails with EBADF);
\* while control is inside the mirror loop no close has been issued at all,
\* so teardown starts only after the loop stopped or setup aborted; once a
\* close is issued only close calls follow; and teardown closes the leader
\* handle before the members of the set.
C19_NoUseAfterClose ==
    /\ \A k \in Uses :
         /\ trace[k].err # "EBADF"
         /\ \A c \in Calls("close") : trace[c].fd = trace[k].fd => c > k
    /\ InLoop => Calls("close") = {}
    /\ \A c \in Calls("close") : \A k \in DOMAIN trace : k > c => trace[k].call = "close"
    /\ \A c, m \in Calls("close") :
         (/\ trace[c].fd = fd
          /\ \E j \in 1 .. led_group.count : trace[m].fd = led_group.led_fds[j]) => c < m

\* A run that mirrored a value to three followers has returned, after four
\* close calls.
C19_Witness ==
    /\ Returned
    /\ led_group.count = 3
    /\ Cardinality(Calls("close")) = 4
    /\ Cardinality(Calls("pwrite")) = 3
    /\ trace[Len(trace) - 3].fd = fd

====
